---- MODULE Spec2Model ----
(***************************************************************************)
(* Model of edqx/autil-js:                                                 *)
(*   - PacketAcknowledgementPromise (packages/hazel/src/client/v1/         *)
(*     packetPromise.ts), the acknowledgement / retransmission engine;     *)
(*   - DtlsSocket (src/unnamed/part_000), the client DTLS handshake state  *)
(*     machine.                                                            *)
(***************************************************************************)
EXTENDS Integers, Sequences, FiniteSets, TLC

(***************************************************************************)
(* Bounds of the model and constants of the program.                       *)
(***************************************************************************)
\* how many times the owner may call setResolved on one entry
MaxSetResolved == 2
\* how many calls of cleanup(), setDropped(), attemptSend() and
\* incrementSendCount() callers may make on one entry
MaxDirectCalls == 2
\* the send count up to which the model follows an entry
MaxCount == 13
\* packetPromise.ts:19  if (this.getSendCount() == 10)
MaxSendCount == 10

\* the continuation functions callers hand to then() and catch(): two
\* distinct functions, either of which may be attached on either side
Conts == {1, 2}
NoCont == 0
NotAcked == "Packet was not acked"

VARIABLES
  \* ---- PacketAcknowledgementPromise: fields ----
  constructed,        \* the constructor has run
  sendCount,          \* this.sendCount
  timeout,            \* this.timeout: "unset" | "armed" | "cleared"
  resolveListeners,   \* this.resolveListeners (a Set)
  rejectListeners,    \* this.rejectListeners (a Set)
  \* ---- PacketAcknowledgementPromise: observed effects ----
  writes,             \* calls of client.write(packet)
  resolveCalls,       \* per continuation: times it was called by resolve()
  rejectCalls,        \* per continuation: times it was called by reject()
  rejectReasons,      \* the reasons handed to failure continuations
  ticks,              \* runs of the interval callback
  nSetResolved,       \* calls of setResolved()
  nSetDropped,        \* calls of setDropped()
  lateResolve,        \* success continuations first attached after completion
  lateReject,         \* failure continuations first attached after completion
  nDirect,            \* calls of cleanup(), setDropped(), attemptSend() and
                      \* incrementSendCount() made by a caller
  \* ---- DtlsSocket: fields ----
  epoch,              \* this.epoch
  sequenceNumber,     \* this.sequenceNumber
  handshakeSequence,  \* this.handshakeSequence
  epochState,         \* this.epochState
  disconnectHandlers, \* this.disconnectHandlers in insertion order: one
                      \* entry per handler, with the state of the connect()
                      \* promise it rejects ("none" for a caller's handler)
                      \* and how often it has been called
  \* ---- DtlsSocket: calls of connect() in progress ----
  awaiting,           \* calls suspended at await this.socket.connect()
  \* ---- DtlsSocket: observed effects ----
  sent,               \* the buffers handed to socket.send, in order
  transportUp,        \* the transport socket has not disconnected
  \* ---- environment of the certificate reassembly scenario ----
  plan,               \* the certificate bytes the peer is sending
  pending,            \* fragments of plan not delivered yet
  delivered,          \* offsets of the fragments delivered, in order
  exchanges           \* certificate exchanges started

ackVars == <<constructed, sendCount, timeout, resolveListeners, rejectListeners,
             writes, resolveCalls, rejectCalls, rejectReasons, ticks,
             nSetResolved, nSetDropped, lateResolve, lateReject, nDirect>>

connectVars == <<awaiting>>

dtlsVars == <<epoch, sequenceNumber, handshakeSequence, epochState,
              disconnectHandlers, sent, transportUp, awaiting>>

scenarioVars == <<plan, pending, delivered, exchanges>>

vars == <<ackVars, dtlsVars, scenarioVars>>

(***************************************************************************)
(* PacketAcknowledgementPromise                                            *)
(***************************************************************************)
\* field initialisers, before the constructor body runs
AckFields ==
  /\ constructed = FALSE
  /\ sendCount = 0
  /\ timeout = "unset"
  /\ resolveListeners = {}
  /\ rejectListeners = {}
  /\ writes = 0
  /\ resolveCalls = [c \in Conts |-> 0]
  /\ rejectCalls = [c \in Conts |-> 0]
  /\ rejectReasons = {}
  /\ ticks = 0
  /\ nSetResolved = 0
  /\ nSetDropped = 0
  /\ lateResolve = {}
  /\ lateReject = {}
  /\ nDirect = 0

\* the entry has reached a terminal outcome
Completed == nSetResolved + nSetDropped > 0

\* resolve(): every listener of the set is called once
Resolve ==
  resolveCalls' = [c \in Conts |->
                     IF c \in resolveListeners THEN resolveCalls[c] + 1
                     ELSE resolveCalls[c]]

\* reject(reason): every listener of the set is called once with the reason
Reject(reason) ==
  /\ rejectCalls' = [c \in Conts |->
                       IF c \in rejectListeners THEN rejectCalls[c] + 1
                       ELSE rejectCalls[c]]
  /\ rejectReasons' = IF rejectListeners = {} THEN rejectReasons
                      ELSE rejectReasons \cup {reason}

\* cleanup(): clearInterval(this.timeout)
Cleanup == timeout' = "cleared"

\* attemptSend(): incrementSendCount(); client.write(packet)
AttemptSend ==
  /\ sendCount' = sendCount + 1
  /\ writes' = writes + 1

\* variant of setDropped() that forgets cleanup()
SetDroppedNoCleanup ==
  /\ timeout' = timeout
  /\ Reject(NotAcked)
  /\ nSetDropped' = nSetDropped + 1

\* setDropped(): cleanup(); reject(new Error("Packet was not acked"))
SetDroppedBody ==
  /\ Cleanup
  /\ Reject(NotAcked)
  /\ nSetDropped' = nSetDropped + 1

\* new PacketAcknowledgementPromise(client, packet)
Construct ==
  /\ UNCHANGED <<dtlsVars, scenarioVars, nDirect>>
  /\ ~constructed
  /\ constructed' = TRUE
  /\ timeout' = "armed"
  /\ AttemptSend
  /\ UNCHANGED <<resolveListeners, rejectListeners, resolveCalls, rejectCalls,
                 rejectReasons, ticks, nSetResolved, nSetDropped,
                 lateResolve, lateReject>>

\* variant of the interval callback that compares with > instead of ==
TickOffByOne ==
  /\ UNCHANGED <<dtlsVars, scenarioVars, nDirect>>
  /\ constructed
  /\ timeout = "armed"
  /\ ticks' = ticks + 1
  /\ IF sendCount > MaxSendCount
       THEN /\ SetDroppedBody
            /\ UNCHANGED <<sendCount, writes>>
       ELSE /\ AttemptSend
            /\ UNCHANGED <<timeout, rejectCalls, rejectReasons, nSetDropped>>
  /\ UNCHANGED <<constructed, resolveListeners, rejectListeners, resolveCalls,
                 nSetResolved, lateResolve, lateReject>>

\* variant of the interval callback that returns at the limit without
\* calling setDropped()
TickNoDrop ==
  /\ UNCHANGED <<dtlsVars, scenarioVars, nDirect>>
  /\ constructed
  /\ timeout = "armed"
  /\ sendCount = MaxSendCount \/ sendCount < MaxCount
  /\ IF sendCount = MaxSendCount
       THEN UNCHANGED <<sendCount, writes, timeout, rejectCalls, rejectReasons,
                        nSetDropped, ticks>>
       ELSE /\ AttemptSend
            /\ ticks' = ticks + 1
            /\ UNCHANGED <<timeout, rejectCalls, rejectReasons, nSetDropped>>
  /\ UNCHANGED <<constructed, resolveListeners, rejectListeners, resolveCalls,
                 nSetResolved, lateResolve, lateReject>>

\* the setInterval callback; it runs only while the interval is armed
Tick ==
  /\ UNCHANGED <<dtlsVars, scenarioVars, nDirect>>
  /\ constructed
  /\ timeout = "armed"
  /\ sendCount = MaxSendCount \/ sendCount < MaxCount
  /\ ticks' = ticks + 1
  /\ IF sendCount = MaxSendCount
       THEN /\ SetDroppedBody
            /\ UNCHANGED <<sendCount, writes>>
       ELSE /\ AttemptSend
            /\ UNCHANGED <<timeout, rejectCalls, rejectReasons, nSetDropped>>
  /\ UNCHANGED <<constructed, resolveListeners, rejectListeners, resolveCalls,
                 nSetResolved, lateResolve, lateReject>>

\* a caller calls setDropped()
CallSetDropped ==
  /\ UNCHANGED <<dtlsVars, scenarioVars>>
  /\ nDirect < MaxDirectCalls
  /\ nDirect' = nDirect + 1
  /\ constructed
  /\ SetDroppedBody
  /\ UNCHANGED <<constructed, sendCount, writes, ticks, resolveListeners,
                 rejectListeners, resolveCalls, nSetResolved, lateResolve,
                 lateReject>>

\* a caller calls cleanup()
CallCleanup ==
  /\ UNCHANGED <<dtlsVars, scenarioVars>>
  /\ nDirect < MaxDirectCalls
  /\ nDirect' = nDirect + 1
  /\ constructed
  /\ Cleanup
  /\ UNCHANGED <<constructed, sendCount, writes, ticks, resolveListeners,
                 rejectListeners, resolveCalls, rejectCalls, rejectReasons,
                 nSetResolved, nSetDropped, lateResolve, lateReject>>

\* a caller calls attemptSend()
CallAttemptSend ==
  /\ UNCHANGED <<dtlsVars, scenarioVars>>
  /\ nDirect < MaxDirectCalls
  /\ nDirect' = nDirect + 1
  /\ constructed
  /\ sendCount < MaxCount
  /\ AttemptSend
  /\ UNCHANGED <<constructed, timeout, ticks, resolveListeners,
                 rejectListeners, resolveCalls, rejectCalls, rejectReasons,
                 nSetResolved, nSetDropped, lateResolve, lateReject>>

\* incrementSendCount(): this.sendCount++
IncrementSendCount == sendCount' = sendCount + 1

\* a caller calls incrementSendCount()
CallIncrementSendCount ==
  /\ UNCHANGED <<dtlsVars, scenarioVars>>
  /\ nDirect < MaxDirectCalls
  /\ nDirect' = nDirect + 1
  /\ constructed
  /\ sendCount < MaxCount
  /\ IncrementSendCount
  /\ UNCHANGED <<constructed, timeout, writes, ticks, resolveListeners,
                 rejectListeners, resolveCalls, rejectCalls, rejectReasons,
                 nSetResolved, nSetDropped, lateResolve, lateReject>>

\* variant of setResolved() that forgets cleanup()
SetResolvedNoCleanup ==
  /\ UNCHANGED <<dtlsVars, scenarioVars, nDirect>>
  /\ constructed
  /\ nSetResolved < MaxSetResolved
  /\ timeout' = timeout
  /\ Resolve
  /\ nSetResolved' = nSetResolved + 1
  /\ UNCHANGED <<constructed, sendCount, resolveListeners, rejectListeners,
                 writes, rejectCalls, rejectReasons, ticks, nSetDropped,
                 lateResolve, lateReject>>

\* setResolved(): cleanup(); resolve()
SetResolved ==
  /\ UNCHANGED <<dtlsVars, scenarioVars, nDirect>>
  /\ constructed
  /\ nSetResolved < MaxSetResolved
  /\ Cleanup
  /\ Resolve
  /\ nSetResolved' = nSetResolved + 1
  /\ UNCHANGED <<constructed, sendCount, resolveListeners, rejectListeners,
                 writes, rejectCalls, rejectReasons, ticks, nSetDropped,
                 lateResolve, lateReject>>

\* then(onFulfilled, onRejected?)
Then(onFulfilled, onRejected) ==
  /\ UNCHANGED <<dtlsVars, scenarioVars, nDirect>>
  /\ constructed
  /\ rejectListeners' = IF onRejected # NoCont
                          THEN rejectListeners \cup {onRejected}
                          ELSE rejectListeners
  /\ resolveListeners' = resolveListeners \cup {onFulfilled}
  /\ lateResolve' = IF Completed /\ onFulfilled \notin resolveListeners
                      THEN lateResolve \cup {onFulfilled} ELSE lateResolve
  /\ lateReject' = IF Completed /\ onRejected # NoCont
                       /\ onRejected \notin rejectListeners
                     THEN lateReject \cup {onRejected} ELSE lateReject
  /\ UNCHANGED <<constructed, sendCount, timeout, writes, resolveCalls,
                 rejectCalls, rejectReasons, ticks, nSetResolved, nSetDropped>>

\* catch(onRejected)
Catch(onRejected) ==
  /\ UNCHANGED <<dtlsVars, scenarioVars, nDirect>>
  /\ constructed
  /\ rejectListeners' = rejectListeners \cup {onRejected}
  /\ lateReject' = IF Completed /\ onRejected \notin rejectListeners
                     THEN lateReject \cup {onRejected} ELSE lateReject
  /\ UNCHANGED <<constructed, sendCount, timeout, resolveListeners, writes,
                 resolveCalls, rejectCalls, rejectReasons, ticks,
                 nSetResolved, nSetDropped, lateResolve>>

AckNext ==
  \/ Construct
  \/ Tick
  \/ SetResolved
  \/ CallSetDropped
  \/ CallCleanup
  \/ CallAttemptSend
  \/ CallIncrementSendCount
  \/ \E f \in Conts, r \in Conts \cup {NoCont} : Then(f, r)
  \/ \E r \in Conts : Catch(r)

(***************************************************************************)
(* DtlsSocket: values                                                      *)
(***************************************************************************)
\* bounds of the handshake model
MaxConnects == 1
MaxSent == 2
MaxFragRecv == 2
MaxEmits == 1
\* bounds of the certificate reassembly scenario
MaxPlanLen == 2
MaxExchanges == 2

\* an optional field: absent (undefined) or holding one value
None == <<>>
Some(x) == <<x>>
IsSome(o) == o # <<>>
Get(o) == o[1]

\* enum HandshakeState
Initializing == "Initializing"
ExpectingServerHello == "ExpectingServerHello"
ExpectingCertificate == "ExpectingCertificate"
ExpectingServerKeyExchange == "ExpectingServerKeyExchange"
ExpectingServerHelloDone == "ExpectingServerHelloDone"
ExpectingChangeCipherSpec == "ExpectingChangeCipherSpec"

\* CipherSuite
TLS_ECDHE_RSA_WITH_AES_128_GCM_SHA256 == "TLS_ECDHE_RSA_WITH_AES_128_GCM_SHA256"
TLS_NULL_WITH_NULL_NULL == "TLS_NULL_WITH_NULL_NULL"
CipherSuites == {TLS_ECDHE_RSA_WITH_AES_128_GCM_SHA256, TLS_NULL_WITH_NULL_NULL}

\* Random.NULL and the values Random.generate() and the peer may produce
RandomNULL == "Random.NULL"
ClientRandoms == {"cr1"}
ServerRandoms == {"sr1"}

\* the value incrementEpoch() gives the record sequence number, which is also
\* the value of the field initialiser
InitialSequenceNumber == 1

\* ProtocolVersion.Obfuscated
ProtocolVersionObfuscated == "Obfuscated"

\* numeric codes compared in handleServerKeyExchange
NamedCurveType == 3
X25519Curve == 29
Sha256Hash == 4
RsaSignature == 1
\* the extension type of the supported-curve extension in ClientHello
EllipticCurveExtension == 10

\* bytes of certificates and cookies
Bytes == {0, 1}
Cookies == {<<>>, <<171>>}
PeerKeys == {"pk1"}
\* RSA key pairs: the public key a certificate holds and the signer of a
\* signature; a certificate whose first byte is 0 holds no public key
Signers == {1, 2}

RECURSIVE SeqsUpTo(_, _)
SeqsUpTo(S, n) ==
  IF n = 0 THEN {<<>>}
  ELSE LET shorter == SeqsUpTo(S, n - 1)
       IN shorter \cup {Append(q, x) : q \in {r \in shorter : Len(r) = n - 1},
                                        x \in S}

(***************************************************************************)
(* External codecs and crypto primitives, by what the handshake uses of    *)
(* them.                                                                   *)
(***************************************************************************)
\* Certificate.deserialize(...).getCertificate(): the parsed certificate and
\* its public key, if it holds one
CertificateDeserialize(der) ==
  [publicKey |-> IF Len(der) >= 1 /\ der[1] # 0 THEN Some(der[1]) ELSE None]

\* x25519.scalarMult / x25519.scalarMultBase
ScalarMult(scalar, point) == <<"x25519", scalar, point>>
ScalarMultBase(scalar) == <<"x25519base", scalar>>
\* expandSecret(secret, label, seed)
ExpandSecret(secret, label, seed) == <<"expand", secret, label, seed>>
\* forge sha256 digest
Sha256(data) == <<"sha256", data>>
\* an RSASSA-PKCS1-v1.5 signature by `signer` over `digest`
Sign(signer, digest) == [signer |-> signer, digest |-> digest]
\* publicKey.verify(digest, signature, "RSASSA-PKCS1-V1_5")
RsaVerify(publicKey, digest, signature) ==
  signature = Sign(publicKey, digest)
\* new Aes128GcmRecordProtection(masterSecret, serverRandom, clientRandom)
Aes128GcmRecordProtection(masterSecret, serverRandom, clientRandom) ==
  [masterSecret |-> masterSecret, serverRandom |-> serverRandom,
   clientRandom |-> clientRandom]
\* recordProtection.encryptClientPlaintext(record)
EncryptClientPlaintext(rp, record) ==
  [contentType |-> record.contentType, protocolVersion |-> record.protocolVersion,
   epoch |-> record.epoch, sequenceNumber |-> record.sequenceNumber,
   encrypted |-> TRUE, body |-> <<"aes128gcm", rp, record.body>>]
\* DtlsRecordReader.fromRecord(type, version, epoch, sequenceNumber, body)
DtlsRecord(type, version, ep, seqno, body) ==
  [contentType |-> type, protocolVersion |-> version, epoch |-> ep,
   sequenceNumber |-> seqno, encrypted |-> FALSE, body |-> body]
\* HandshakeReader.fromHandshake(type, messageSequence, fragmentOffset,
\* length, body)
Handshake(type, messageSequence, fragmentOffset, length, body) ==
  [handshakeType |-> type, messageSequence |-> messageSequence,
   fragmentOffset |-> fragmentOffset, length |-> length, body |-> body]
\* buf.byteLength of a serialized outbound payload (decided by the codec)
ByteLength(payload) == <<"byteLength", payload>>

(***************************************************************************)
(* DtlsSocket: state                                                       *)
(***************************************************************************)
\* resetConnectionState(): the epoch state it installs
FreshEpochState(clientRandom) ==
  [epoch |-> 1,
   state |-> Initializing,
   selectedCipherSuite |-> TLS_NULL_WITH_NULL_NULL,
   cookie |-> <<>>,
   serverRandom |-> RandomNULL,
   clientRandom |-> clientRandom,
   masterSecret |-> <<>>,
   serverVerification |-> <<>>,
   certificateFragmentDataRecv |-> 0,
   certificatePayload |-> <<>>,
   handshake |-> None,
   serverCertificate |-> None,
   recordProtection |-> None,
   certificateFragments |-> None]

\* the socket as one value at the start of an operation, with what the
\* operation does besides changing fields: threw (an exception left the
\* running handler), certCalls (calls of handleCertificate) and lastCert (the
\* bytes last given to Certificate.deserialize)
Cur ==
  [epoch |-> epoch, sequenceNumber |-> sequenceNumber,
   handshakeSequence |-> handshakeSequence, epochState |-> epochState,
   disconnectHandlers |-> disconnectHandlers, sent |-> sent,
   certCalls |-> 0, lastCert |-> <<>>, threw |-> FALSE]

Install(t) ==
  /\ epoch' = t.epoch
  /\ sequenceNumber' = t.sequenceNumber
  /\ handshakeSequence' = t.handshakeSequence
  /\ epochState' = t.epochState
  /\ disconnectHandlers' = t.disconnectHandlers
  /\ sent' = t.sent

\* field initialisers and constructor of DtlsSocket
DtlsFields(clientRandom) ==
  /\ epoch = 0
  /\ sequenceNumber = InitialSequenceNumber
  /\ handshakeSequence = 0
  /\ epochState = FreshEpochState(clientRandom)
  /\ disconnectHandlers = <<>>
  /\ sent = <<>>
  /\ transportUp = TRUE
  /\ awaiting = 0

\* variant of resetConnectionState that also restarts the record sequence
\* number
ResetConnectionStateAndSequence(s, clientRandom) ==
  [s EXCEPT !.epochState = FreshEpochState(clientRandom),
            !.sequenceNumber = InitialSequenceNumber]

ResetConnectionState(s, clientRandom) ==
  [s EXCEPT !.epochState = FreshEpochState(clientRandom)]

\* emitDisconnect(reason): every handler is called; the handler added by
\* connect() rejects that connect's promise (a settled promise stays settled)
EmitDisconnect(s) ==
  [s EXCEPT !.disconnectHandlers =
              [i \in DOMAIN @ |-> [handler |-> @[i].handler,
                                   promise |-> IF @[i].promise = "pending"
                                                 THEN "rejected"
                                                 ELSE @[i].promise,
                                   calls |-> @[i].calls + 1]]]

\* the handler functions a caller passes to addDisconnectHandler
UserHandlers == {"h1"}
\* the rej function of a connect() promise; every connect() makes its own
RejHandler == "rej"

\* addDisconnectHandler(handler): Set.add keeps one entry per function, so a
\* function that is already in the set is not added again; promise is the
\* connect() promise the function rejects, "none" for a caller's function
AddDisconnectHandler(s, handler, promise) ==
  IF handler \in UserHandlers
       /\ \E i \in DOMAIN s.disconnectHandlers :
            s.disconnectHandlers[i].handler = handler
    THEN s
    ELSE [s EXCEPT !.disconnectHandlers =
                     Append(@, [handler |-> handler, promise |-> promise,
                                calls |-> 0])]

\* the handlers added by connect()
ConnectHandlers(t) ==
  {i \in DOMAIN t.disconnectHandlers :
     t.disconnectHandlers[i].handler = RejHandler}

(***************************************************************************)
(* DtlsSocket: sending                                                     *)
(***************************************************************************)
\* socket.send(buffer): one outbound write, here the records it holds
SocketSend(s, records) == [s EXCEPT !.sent = Append(@, records)]

\* variant of incrementEpoch that keeps the record sequence number
IncrementEpochNoReset(s) == [s EXCEPT !.epoch = @ + 1]

IncrementEpoch(s) ==
  [s EXCEPT !.epoch = @ + 1, !.sequenceNumber = InitialSequenceNumber]

SendDtlsMessage(s, type, body) ==
  SocketSend([s EXCEPT !.sequenceNumber = @ + 1],
             <<DtlsRecord(type, ProtocolVersionObfuscated, s.epoch,
                          s.sequenceNumber, body)>>)

\* sendHandshakeMessage(...messages)
RECURSIVE HandshakeWriter(_, _, _)
HandshakeWriter(messages, i, hseq) ==
  IF i > Len(messages) THEN <<>>
  ELSE <<Handshake(messages[i].type, hseq, 0, ByteLength(messages[i].body),
                   messages[i].body)>>
         \o HandshakeWriter(messages, i + 1, hseq + 1)

SendHandshakeMessage(s, messages) ==
  SendDtlsMessage([s EXCEPT !.handshakeSequence = @ + Len(messages)],
                  "Handshake",
                  HandshakeWriter(messages, 1, s.handshakeSequence))

ClientHello(es) ==
  [type |-> "ClientHello",
   body |-> [protocolVersion |-> ProtocolVersionObfuscated,
             random |-> es.clientRandom,
             session |-> 1,
             cookie |-> es.cookie,
             cipherSuites |-> <<TLS_ECDHE_RSA_WITH_AES_128_GCM_SHA256>>,
             compressionMethods |-> <<0>>,
             extensions |-> <<[type |-> EllipticCurveExtension,
                               curves |-> <<X25519Curve>>]>>]]

SendClientHello(s, retransmitting) ==
  LET t == SendHandshakeMessage(s, <<ClientHello(s.epochState)>>)
  IN IF ~retransmitting
       THEN [t EXCEPT !.epochState.state = ExpectingServerHello]
       ELSE t

\* variant of sendClientKeyExchangeFlight that writes ChangeCipherSpec first
SendClientKeyExchangeFlightMisordered(s) ==
  LET cke == ScalarMultBase(s.epochState.clientRandom)
      handshakeReader == Handshake("ClientKeyExchange", s.handshakeSequence, 0,
                                   ByteLength(cke), cke)
      cker == DtlsRecord("Handshake", ProtocolVersionObfuscated, s.epoch,
                         s.sequenceNumber, <<handshakeReader>>)
      ccsr == DtlsRecord("ChangeCipherSpec", ProtocolVersionObfuscated, s.epoch,
                         s.sequenceNumber + 1, <<1>>)
      s1 == IncrementEpoch([s EXCEPT !.handshakeSequence = @ + 1,
                                     !.sequenceNumber = @ + 2])
      handshakeReader2 == Handshake("Finished", s1.handshakeSequence, 0, 0, <<1>>)
      s2 == [s1 EXCEPT !.handshakeSequence = @ + 1]
  IN IF ~IsSome(s.epochState.recordProtection)
       THEN \* recordProtection!.encryptClientPlaintext: TypeError
            [s2 EXCEPT !.threw = TRUE]
       ELSE LET fhr == EncryptClientPlaintext(
                          Get(s.epochState.recordProtection),
                          DtlsRecord("Handshake", ProtocolVersionObfuscated,
                                     s2.epoch, s2.sequenceNumber,
                                     <<handshakeReader2>>))
            IN SocketSend([s2 EXCEPT !.sequenceNumber = @ + 1],
                          <<ccsr, cker, fhr>>)

SendClientKeyExchangeFlight(s) ==
  LET cke == ScalarMultBase(s.epochState.clientRandom)
      handshakeReader == Handshake("ClientKeyExchange", s.handshakeSequence, 0,
                                   ByteLength(cke), cke)
      cker == DtlsRecord("Handshake", ProtocolVersionObfuscated, s.epoch,
                         s.sequenceNumber, <<handshakeReader>>)
      ccsr == DtlsRecord("ChangeCipherSpec", ProtocolVersionObfuscated, s.epoch,
                         s.sequenceNumber + 1, <<1>>)
      s1 == IncrementEpoch([s EXCEPT !.handshakeSequence = @ + 1,
                                     !.sequenceNumber = @ + 2])
      handshakeReader2 == Handshake("Finished", s1.handshakeSequence, 0, 0, <<1>>)
      s2 == [s1 EXCEPT !.handshakeSequence = @ + 1]
  IN IF ~IsSome(s.epochState.recordProtection)
       THEN \* recordProtection!.encryptClientPlaintext: TypeError
            [s2 EXCEPT !.threw = TRUE]
       ELSE LET fhr == EncryptClientPlaintext(
                          Get(s.epochState.recordProtection),
                          DtlsRecord("Handshake", ProtocolVersionObfuscated,
                                     s2.epoch, s2.sequenceNumber,
                                     <<handshakeReader2>>))
            IN SocketSend([s2 EXCEPT !.sequenceNumber = @ + 1],
                          <<cker, ccsr, fhr>>)

(***************************************************************************)
(* DtlsSocket: handshake handlers                                          *)
(***************************************************************************)
HandleHelloVerifyRequest(s, request) ==
  IF s.epochState.state # ExpectingServerHello THEN s
  ELSE IF s.epochState.cookie = request.cookie THEN s
  ELSE SendClientHello([s EXCEPT !.epochState.cookie = request.cookie], FALSE)

HandleServerHello(s, hello) ==
  IF s.epochState.state # ExpectingServerHello THEN s
  ELSE LET s1 == IF hello.cipherSuite = TLS_ECDHE_RSA_WITH_AES_128_GCM_SHA256
                   THEN [s EXCEPT !.epochState.handshake =
                                     Some("X25519EcdheRsaSha256")]
                   ELSE s
       IN [s1 EXCEPT !.epochState.selectedCipherSuite = hello.cipherSuite,
                     !.epochState.state = ExpectingCertificate,
                     !.epochState.certificateFragments = None,
                     !.epochState.certificateFragmentDataRecv = 0,
                     !.epochState.certificatePayload = <<>>]

HandleCertificate(s, certificate) ==
  LET s0 == [s EXCEPT !.certCalls = @ + 1]
  IN IF ~IsSome(certificate.publicKey) THEN s0
     ELSE [s0 EXCEPT !.epochState.serverCertificate = Some(certificate),
                     !.epochState.state = ExpectingServerKeyExchange]

\* keyExchange.serialize() sliced to 4 + key.byteLength bytes: curve type,
\* curve id and the length-prefixed key
KeyAndParameters(keyExchange) ==
  <<keyExchange.curveType, keyExchange.selectedCurve, keyExchange.key>>

\* variant of handleServerKeyExchange that sets the state and the master secret
\* before it looks at the cipher suite
HandleServerKeyExchangeStateFirst(s, keyExchange) ==
  IF keyExchange.curveType # NamedCurveType THEN s
  ELSE IF keyExchange.selectedCurve # X25519Curve THEN s
  ELSE IF keyExchange.hashAlgorithm # Sha256Hash THEN s
  ELSE IF keyExchange.signatureAlgorithm # RsaSignature THEN s
  ELSE IF ~IsSome(s.epochState.serverCertificate) THEN s
  ELSE IF ~RsaVerify(Get(Get(s.epochState.serverCertificate).publicKey),
                     Sha256(KeyAndParameters(keyExchange)),
                     keyExchange.signature) THEN s
  ELSE LET res == ScalarMult(s.epochState.clientRandom, keyExchange.key)
           randomSeed == <<s.epochState.clientRandom, s.epochState.serverRandom>>
           masterSecret == ExpandSecret(res, "master secert", randomSeed)
           s1 == [s EXCEPT !.epochState.state = ExpectingServerHelloDone,
                           !.epochState.masterSecret = masterSecret]
       IN IF s.epochState.selectedCipherSuite
               = TLS_ECDHE_RSA_WITH_AES_128_GCM_SHA256
            THEN [s1 EXCEPT !.epochState.recordProtection =
                               Some(Aes128GcmRecordProtection(
                                      masterSecret,
                                      s.epochState.serverRandom,
                                      s.epochState.clientRandom))]
            ELSE s1

HandleServerKeyExchange(s, keyExchange) ==
  IF keyExchange.curveType # NamedCurveType THEN s
  ELSE IF keyExchange.selectedCurve # X25519Curve THEN s
  ELSE IF keyExchange.hashAlgorithm # Sha256Hash THEN s
  ELSE IF keyExchange.signatureAlgorithm # RsaSignature THEN s
  ELSE IF ~IsSome(s.epochState.serverCertificate) THEN s
  ELSE IF ~RsaVerify(Get(Get(s.epochState.serverCertificate).publicKey),
                     Sha256(KeyAndParameters(keyExchange)),
                     keyExchange.signature) THEN s
  ELSE LET res == ScalarMult(s.epochState.clientRandom, keyExchange.key)
           randomSeed == <<s.epochState.clientRandom, s.epochState.serverRandom>>
           masterSecret == ExpandSecret(res, "master secert", randomSeed)
       IN IF s.epochState.selectedCipherSuite
               = TLS_ECDHE_RSA_WITH_AES_128_GCM_SHA256
            THEN [s EXCEPT !.epochState.recordProtection =
                              Some(Aes128GcmRecordProtection(
                                     masterSecret,
                                     s.epochState.serverRandom,
                                     s.epochState.clientRandom)),
                           !.epochState.state = ExpectingServerHelloDone,
                           !.epochState.masterSecret = masterSecret]
            ELSE s

HandleServerHelloDone(s) ==
  IF s.epochState.state # ExpectingServerHelloDone THEN s
  ELSE SendClientKeyExchangeFlight(
         [s EXCEPT !.epochState.state = ExpectingChangeCipherSpec])

\* new ArrayBuffer(n): n zero bytes
ZeroBuffer(n) == [i \in 1..n |-> 0]

\* new Uint8Array(target).set(source, offset), when it fits
SetBytes(target, source, offset) ==
  [i \in 1..Len(target) |->
     IF i > offset /\ i <= offset + Len(source) THEN source[i - offset]
     ELSE target[i]]

\* variant of the Certificate case that appends each fragment after the bytes
\* received so far instead of placing it at its fragment offset
HandleCertificateMessageAppend(s, message) ==
  IF message.fullLength = Len(message.buffer)
    THEN HandleCertificate([s EXCEPT !.lastCert = message.buffer],
                           CertificateDeserialize(message.buffer))
    ELSE LET s1 == IF ~IsSome(s.epochState.certificateFragments)
                     THEN [s EXCEPT !.epochState.certificateFragments =
                                       Some(ZeroBuffer(message.fullLength))]
                     ELSE s
             buf == Get(s1.epochState.certificateFragments)
             at == s1.epochState.certificateFragmentDataRecv
         IN IF at + Len(message.buffer) > Len(buf)
              THEN [s1 EXCEPT !.threw = TRUE]
              ELSE LET filled == SetBytes(buf, message.buffer, at)
                       s2 == [s1 EXCEPT
                                !.epochState.certificateFragments = Some(filled),
                                !.epochState.certificateFragmentDataRecv =
                                   @ + Len(message.buffer)]
                   IN IF s2.epochState.certificateFragmentDataRecv
                           = message.fullLength
                        THEN [HandleCertificate(
                                 [s2 EXCEPT !.lastCert = filled],
                                 CertificateDeserialize(filled))
                                EXCEPT !.epochState.certificateFragments = None,
                                       !.epochState.certificateFragmentDataRecv = 0]
                        ELSE s2

\* the Certificate case of handleHandshake
HandleCertificateMessage(s, message) ==
  IF message.fullLength = Len(message.buffer)
    THEN HandleCertificate([s EXCEPT !.lastCert = message.buffer],
                           CertificateDeserialize(message.buffer))
    ELSE LET s1 == IF ~IsSome(s.epochState.certificateFragments)
                     THEN [s EXCEPT !.epochState.certificateFragments =
                                       Some(ZeroBuffer(message.fullLength))]
                     ELSE s
             buf == Get(s1.epochState.certificateFragments)
         IN IF message.fragmentOffset + Len(message.buffer) > Len(buf)
              THEN \* Uint8Array.set: RangeError
                   [s1 EXCEPT !.threw = TRUE]
              ELSE LET filled == SetBytes(buf, message.buffer,
                                          message.fragmentOffset)
                       s2 == [s1 EXCEPT
                                !.epochState.certificateFragments = Some(filled),
                                !.epochState.certificateFragmentDataRecv =
                                   @ + Len(message.buffer)]
                   IN IF s2.epochState.certificateFragmentDataRecv
                           = message.fullLength
                        THEN [HandleCertificate(
                                 [s2 EXCEPT !.lastCert = filled],
                                 CertificateDeserialize(filled))
                                EXCEPT !.epochState.certificateFragments = None,
                                       !.epochState.certificateFragmentDataRecv = 0]
                        ELSE s2

HandleHandshake(s, message) ==
  LET s0 == [s EXCEPT !.handshakeSequence = message.messageSequence]
  IN CASE message.handshakeType = "HelloVerifyRequest" ->
            HandleHelloVerifyRequest(s0, message.buffer)
       [] message.handshakeType = "ServerHello" ->
            HandleServerHello(s0, message.buffer)
       [] message.handshakeType = "Certificate" ->
            HandleCertificateMessage(s0, message)
       [] message.handshakeType = "ServerKeyExchange" ->
            HandleServerKeyExchange(s0, message.buffer)
       [] message.handshakeType = "ServerHelloDone" ->
            HandleServerHelloDone(s0)
       [] OTHER -> s0

\* the while loop of handleMessage over the handshake messages of a record
RECURSIVE HandleHandshakes(_, _, _)
HandleHandshakes(s, messages, i) ==
  IF i > Len(messages) \/ s.threw THEN s
  ELSE HandleHandshakes(HandleHandshake(s, messages[i]), messages, i + 1)

\* variant of handleMessage that reports a disconnect for every Alert
HandleMessageEveryAlertFatal(s, record) ==
  IF record.contentType = "Alert"
    THEN EmitDisconnect(s)
  ELSE IF record.contentType = "Handshake"
    THEN HandleHandshakes(s, record.messages, 1)
  ELSE s

HandleMessage(s, record) ==
  IF record.contentType = "Alert"
    THEN IF record.fatal THEN EmitDisconnect(s) ELSE s
  ELSE IF record.contentType = "Handshake"
    THEN HandleHandshakes(s, record.messages, 1)
  ELSE s

(***************************************************************************)
(* Inbound messages the peer may send                                      *)
(***************************************************************************)
\* message sequence numbers the peer writes in its handshake headers
MsgSeqs == {0, 1}

HandshakeMessage(type, q, fullLength, fragmentOffset, buffer) ==
  [handshakeType |-> type, messageSequence |-> q, fullLength |-> fullLength,
   fragmentOffset |-> fragmentOffset, buffer |-> buffer]

HelloVerifyRequests ==
  {HandshakeMessage("HelloVerifyRequest", q, 0, 0, [cookie |-> c]) :
     q \in MsgSeqs, c \in Cookies}

ServerHellos ==
  {HandshakeMessage("ServerHello", q, 0, 0, [cipherSuite |-> cs, random |-> r]) :
     q \in MsgSeqs, cs \in CipherSuites, r \in ServerRandoms}

\* whole certificates, with and without a public key, and the one-byte
\* fragments of a two-byte certificate at every offset up to its length (the
\* last one does not fit the buffer)
Certificates ==
  {HandshakeMessage("Certificate", q, Len(b), 0, b) :
     q \in MsgSeqs, b \in {<<0>>, <<1>>}}
    \cup {HandshakeMessage("Certificate", q, 2, off, <<1>>) :
            q \in MsgSeqs, off \in {0, 1, 2}}

\* curve type, curve, hash algorithm, signature algorithm: the supported
\* combination and each single deviation from it
KeyExchangeParameters ==
  {<<NamedCurveType, X25519Curve, Sha256Hash, RsaSignature>>,
   <<1, X25519Curve, Sha256Hash, RsaSignature>>,
   <<NamedCurveType, 23, Sha256Hash, RsaSignature>>,
   <<NamedCurveType, X25519Curve, 2, RsaSignature>>,
   <<NamedCurveType, X25519Curve, Sha256Hash, 3>>}

KeyExchange(p, key, signature) ==
  [curveType |-> p[1], selectedCurve |-> p[2], hashAlgorithm |-> p[3],
   signatureAlgorithm |-> p[4], key |-> key, signature |-> signature]

SignaturesFor(p, key) ==
  {Sign(k, Sha256(KeyAndParameters(KeyExchange(p, key, <<>>)))) : k \in Signers}
    \cup {Sign(1, Sha256(<<"other">>))}

\* the supported parameters under every signature, and every deviating
\* parameter under the signature the holder of key pair 1 makes of it
ServerKeyExchanges ==
  UNION {{HandshakeMessage("ServerKeyExchange", q, 0, 0,
                           KeyExchange(p, key, sig)) :
            q \in MsgSeqs,
            sig \in IF p = <<NamedCurveType, X25519Curve, Sha256Hash,
                             RsaSignature>>
                     THEN SignaturesFor(p, key)
                     ELSE {Sign(1, Sha256(KeyAndParameters(
                                            KeyExchange(p, key, <<>>))))}} :
           p \in KeyExchangeParameters, key \in PeerKeys}

ServerHelloDones ==
  {HandshakeMessage("ServerHelloDone", q, 0, 0, <<>>) : q \in MsgSeqs}

OtherHandshakes ==
  {HandshakeMessage("Finished", q, 0, 0, <<>>) : q \in MsgSeqs}

HandshakeRecord(messages) == [contentType |-> "Handshake", messages |-> messages]
AlertRecord(fatal) == [contentType |-> "Alert", fatal |-> fatal]

\* a server flight in one record: ServerHello, Certificate, ServerKeyExchange
\* and ServerHelloDone with consecutive message sequence numbers
ValidCertificate == <<1>>
ValidKeyExchange(key) ==
  KeyExchange(<<NamedCurveType, X25519Curve, Sha256Hash, RsaSignature>>, key,
              Sign(1, Sha256(<<NamedCurveType, X25519Curve, key>>)))
ServerFlights ==
  {<<HandshakeMessage("ServerHello", 0, 0, 0,
                      [cipherSuite |-> cs, random |-> r]),
     HandshakeMessage("Certificate", 1, Len(ValidCertificate), 0,
                      ValidCertificate),
     HandshakeMessage("ServerKeyExchange", 1, 0, 0, ValidKeyExchange(key)),
     HandshakeMessage("ServerHelloDone", 1, 0, 0, <<>>)>> :
     cs \in CipherSuites, r \in ServerRandoms, key \in PeerKeys}

\* the counters a handler may leave stay within the bounds of the model
WithinBounds(t) ==
  /\ Len(t.sent) <= MaxSent
  /\ t.epochState.certificateFragmentDataRecv <= MaxFragRecv
  /\ \A i \in DOMAIN t.disconnectHandlers :
       t.disconnectHandlers[i].calls <= MaxEmits
  /\ Cardinality(ConnectHandlers(t)) <= MaxConnects

(***************************************************************************)
(* DtlsSocket: operations                                                  *)
(***************************************************************************)
\* connect(), after its await: _connect() up to its own await, then
\* addDisconnectHandler(rej)
ConnectOp(s, clientRandom) ==
  AddDisconnectHandler(
    SendClientHello(ResetConnectionState(s, clientRandom), FALSE),
    RejHandler, "pending")

\* the calls of connect() made so far that the transport has not rejected
ConnectsStarted == awaiting + Cardinality(ConnectHandlers(Cur))

\* connect() up to await this.socket.connect(): it asks the transport to
\* connect and returns to the event loop
ConnectCallWithin(max) ==
  /\ ConnectsStarted < max
  /\ awaiting' = awaiting + 1
  /\ UNCHANGED <<epoch, sequenceNumber, handshakeSequence, epochState,
                 disconnectHandlers, sent, transportUp>>
  /\ UNCHANGED <<ackVars, scenarioVars>>

ConnectCall == ConnectCallWithin(MaxConnects)

\* the transport, asked to connect, connects: the promises of
\* socket.connect() resolve and the continuations of connect() are queued
TransportConnectResolves ==
  /\ awaiting > 0
  /\ ~transportUp
  /\ transportUp' = TRUE
  /\ UNCHANGED <<epoch, sequenceNumber, handshakeSequence, epochState,
                 disconnectHandlers, sent, awaiting>>
  /\ UNCHANGED <<ackVars, scenarioVars>>

\* the promise of socket.connect() rejects: the await throws, connect()
\* rejects and touches nothing of the socket
TransportConnectRejects ==
  /\ awaiting > 0
  /\ awaiting' = awaiting - 1
  /\ UNCHANGED <<epoch, sequenceNumber, handshakeSequence, epochState,
                 disconnectHandlers, sent, transportUp>>
  /\ UNCHANGED <<ackVars, scenarioVars>>

\* connect() resumes after its await, the transport being connected
ConnectContinue ==
  /\ awaiting > 0
  /\ transportUp
  /\ awaiting' = awaiting - 1
  /\ \E cr \in ClientRandoms :
       LET t == ConnectOp(Cur, cr)
       IN WithinBounds(t) /\ Install(t)
  /\ UNCHANGED <<transportUp, ackVars, scenarioVars>>

\* a caller calls addDisconnectHandler(handler)
CallAddDisconnectHandler ==
  /\ \E h \in UserHandlers : Install(AddDisconnectHandler(Cur, h, "none"))
  /\ UNCHANGED <<transportUp, connectVars, ackVars, scenarioVars>>

\* the transport hands a record to the receive handler of the constructor
Receive(record) ==
  LET t == HandleMessage(Cur, record)
  IN WithinBounds(t) /\ Install(t)

\* a handshake record holding one HelloVerifyRequest
RecvHelloVerifyRequest ==
  /\ transportUp
  /\ \E m \in HelloVerifyRequests : Receive(HandshakeRecord(<<m>>))
  /\ UNCHANGED <<transportUp, connectVars, ackVars, scenarioVars>>

\* a handshake record holding one ServerHello
RecvServerHello ==
  /\ transportUp
  /\ \E m \in ServerHellos : Receive(HandshakeRecord(<<m>>))
  /\ UNCHANGED <<transportUp, connectVars, ackVars, scenarioVars>>

\* a handshake record holding one Certificate message or fragment
RecvCertificate ==
  /\ transportUp
  /\ \E m \in Certificates : Receive(HandshakeRecord(<<m>>))
  /\ UNCHANGED <<transportUp, connectVars, ackVars, scenarioVars>>

\* a handshake record holding one ServerKeyExchange
RecvServerKeyExchange ==
  /\ transportUp
  /\ \E m \in ServerKeyExchanges : Receive(HandshakeRecord(<<m>>))
  /\ UNCHANGED <<transportUp, connectVars, ackVars, scenarioVars>>

\* a handshake record holding one ServerHelloDone
RecvServerHelloDone ==
  /\ transportUp
  /\ \E m \in ServerHelloDones : Receive(HandshakeRecord(<<m>>))
  /\ UNCHANGED <<transportUp, connectVars, ackVars, scenarioVars>>

\* a handshake record holding a message handleHandshake has no case for
RecvOtherHandshake ==
  /\ transportUp
  /\ \E m \in OtherHandshakes : Receive(HandshakeRecord(<<m>>))
  /\ UNCHANGED <<transportUp, connectVars, ackVars, scenarioVars>>

\* a handshake record holding a whole server flight
RecvServerFlight ==
  /\ transportUp
  /\ \E f \in ServerFlights : Receive(HandshakeRecord(f))
  /\ UNCHANGED <<transportUp, connectVars, ackVars, scenarioVars>>

RecvAlert ==
  /\ transportUp
  /\ \E fatal \in BOOLEAN : Receive(AlertRecord(fatal))
  /\ UNCHANGED <<transportUp, connectVars, ackVars, scenarioVars>>

RecvOther ==
  /\ transportUp
  /\ \E type \in {"ChangeCipherSpec", "ApplicationData"} :
       Receive([contentType |-> type])
  /\ UNCHANGED <<transportUp, connectVars, ackVars, scenarioVars>>

\* the transport socket disconnects; the constructor registers no handler
\* for it
TransportDisconnect ==
  /\ transportUp
  /\ transportUp' = FALSE
  /\ UNCHANGED <<epoch, sequenceNumber, handshakeSequence, epochState,
                 disconnectHandlers, sent, connectVars>>
  /\ UNCHANGED <<ackVars, scenarioVars>>

ScenarioIdle ==
  plan = <<>> /\ pending = {} /\ delivered = <<>> /\ exchanges = 0

InitDtls ==
  /\ AckFields
  /\ \E cr \in ClientRandoms : DtlsFields(cr)
  /\ ScenarioIdle

NextDtls ==
  \/ ConnectCall
  \/ TransportConnectResolves
  \/ TransportConnectRejects
  \/ ConnectContinue
  \/ CallAddDisconnectHandler
  \/ RecvHelloVerifyRequest
  \/ RecvServerHello
  \/ RecvCertificate
  \/ RecvServerKeyExchange
  \/ RecvServerHelloDone
  \/ RecvOtherHandshake
  \/ RecvServerFlight
  \/ RecvAlert
  \/ RecvOther
  \/ TransportDisconnect

SpecDtls == InitDtls /\ [][NextDtls]_vars

(***************************************************************************)
(* Certificate reassembly scenario: the peer sends a certificate as        *)
(* fragments that partition it, delivered in any order and not mixed with   *)
(* other certificate messages.                                             *)
(***************************************************************************)
Min(S) == CHOOSE x \in S : \A y \in S : x <= y

\* the fragments of content cut at the offsets of cuts
FragmentsOf(content, cuts, q) ==
  LET bounds == {0} \cup cuts \cup {Len(content)}
  IN {HandshakeMessage("Certificate", q, Len(content), b,
                       SubSeq(content, b + 1,
                              Min({c \in bounds : c > b}))) :
        b \in bounds \ {Len(content)}}

\* certificates of every length up to MaxPlanLen, with (first byte 1) and
\* without (first byte 0) a public key; every later byte differs from its
\* neighbours and from the zero fill of a fresh buffer
Plans ==
  {[i \in 1..n |-> IF i = 1 THEN k ELSE i] : n \in 1..MaxPlanLen, k \in Bytes}

StartExchange ==
  /\ pending = {}
  /\ exchanges < MaxExchanges
  /\ \E content \in Plans :
       \E cuts \in SUBSET (1..(Len(content) - 1)), q \in MsgSeqs :
         /\ plan' = content
         /\ pending' = FragmentsOf(content, cuts, q)
  /\ delivered' = <<>>
  /\ exchanges' = exchanges + 1
  /\ UNCHANGED <<dtlsVars, ackVars>>

DeliverFragment ==
  /\ transportUp
  /\ \E f \in pending :
       /\ Receive(HandshakeRecord(<<f>>))
       /\ pending' = pending \ {f}
       /\ delivered' = Append(delivered, f.fragmentOffset)
  /\ UNCHANGED <<plan, exchanges, transportUp, connectVars, ackVars>>

\* the fragments are delivered while connect() is called and resumes, a
\* caller adds a disconnect handler and the peer sends ServerHello messages
NextReasm ==
  \/ StartExchange
  \/ DeliverFragment
  \/ ConnectCall
  \/ ConnectContinue
  \/ TransportConnectRejects
  \/ CallAddDisconnectHandler
  \/ RecvServerHello

SpecReasm == InitDtls /\ [][NextReasm]_vars

(***************************************************************************)
(* Repeated connection attempts: connect() is called again on the same     *)
(* socket, each attempt with well-formed messages of the peer.             *)
(***************************************************************************)
MaxAttempts == 2
MaxAttemptSent == 4

WithinAttemptBounds(t) ==
  /\ Len(t.sent) <= MaxAttemptSent
  /\ Cardinality(ConnectHandlers(t)) <= MaxAttempts

AttemptConnectCall == ConnectCallWithin(MaxAttempts)

AttemptConnectContinue ==
  /\ awaiting > 0
  /\ transportUp
  /\ awaiting' = awaiting - 1
  /\ \E cr \in ClientRandoms :
       LET t == ConnectOp(Cur, cr)
       IN WithinAttemptBounds(t) /\ Install(t)
  /\ UNCHANGED <<transportUp, ackVars, scenarioVars>>

AttemptReceive(record) ==
  LET t == HandleMessage(Cur, record)
  IN WithinAttemptBounds(t) /\ Install(t)

AttemptHelloVerifyRequest ==
  /\ \E m \in HelloVerifyRequests : AttemptReceive(HandshakeRecord(<<m>>))
  /\ UNCHANGED <<transportUp, connectVars, ackVars, scenarioVars>>

AttemptServerFlight ==
  /\ \E f \in ServerFlights : AttemptReceive(HandshakeRecord(f))
  /\ UNCHANGED <<transportUp, connectVars, ackVars, scenarioVars>>

\* the last three messages of a server flight, as a peer retransmits them
AttemptFlightTail ==
  /\ \E f \in ServerFlights :
       AttemptReceive(HandshakeRecord(SubSeq(f, 2, Len(f))))
  /\ UNCHANGED <<transportUp, connectVars, ackVars, scenarioVars>>

\* one message of a server flight in a record of its own
AttemptFlightMessage ==
  /\ \E f \in ServerFlights, i \in 1..4 :
       AttemptReceive(HandshakeRecord(<<f[i]>>))
  /\ UNCHANGED <<transportUp, connectVars, ackVars, scenarioVars>>

NextAttempts ==
  \/ AttemptConnectCall
  \/ AttemptConnectContinue
  \/ TransportConnectRejects
  \/ CallAddDisconnectHandler
  \/ AttemptHelloVerifyRequest
  \/ AttemptServerFlight
  \/ AttemptFlightTail
  \/ AttemptFlightMessage

SpecAttempts == InitDtls /\ [][NextAttempts]_vars

(***************************************************************************)
(* Specifications of the acknowledgement engine                            *)
(***************************************************************************)
InitAck == AckFields /\ DtlsFields("cr1") /\ ScenarioIdle
NextAck == AckNext
SpecAck == InitAck /\ [][NextAck]_vars
\* the interval timer keeps firing while it is armed
SpecAckFair == SpecAck /\ WF_vars(Tick)

(***************************************************************************)
(* Properties of the acknowledgement engine                                *)
(***************************************************************************)
SomeResolveCall == \E c \in Conts : resolveCalls[c] > 0
SomeRejectCall == \E c \in Conts : rejectCalls[c] > 0
IsTickStep == ticks' = ticks + 1
IsSetResolvedStep == nSetResolved' = nSetResolved + 1
IsConstructStep == ~constructed /\ constructed'

\* C1: over every interleaving of timer ticks and setResolved calls the entry
\* completes at most once: success and failure continuations are never both
\* invoked, and no continuation is invoked a second time.
C1_CompletesAtMostOnce ==
  /\ ~(SomeResolveCall /\ SomeRejectCall)
  /\ \A c \in Conts : resolveCalls[c] <= 1 /\ rejectCalls[c] <= 1

\* The entry is driven by its own operations only: the constructor, the
\* interval timer, the acknowledgement notification setResolved() and the
\* registration of continuations. No caller has called cleanup(),
\* setDropped(), attemptSend() or incrementSendCount() itself.
EngineOnly == nDirect = 0
\* the step is not one of those calls either
EngineStep == nDirect' = 0

\* C2: while the entry is driven by its own operations only, an entry that is
\* never resolved is dropped by the tick that follows its 10th attempt,
\* exactly once: that tick is the 10th, it calls every registered failure
\* continuation once with "Packet was not acked", no success continuation has
\* been called, and the timer is disarmed; no drop happens earlier or again.
C2_DropStep ==
  (EngineStep /\ IsTickStep /\ sendCount = MaxSendCount) =>
     /\ nSetResolved = 0
     /\ nSetDropped' = 1
     /\ ticks' = MaxSendCount
     /\ \A c \in Conts :
          rejectCalls'[c] = IF c \in rejectListeners THEN 1 ELSE 0
     /\ rejectListeners # {} => rejectReasons' = {NotAcked}
     /\ resolveCalls' = resolveCalls
     /\ \A c \in Conts : resolveCalls'[c] = 0
     /\ timeout' = "cleared"
C2_DropState ==
  EngineOnly =>
    /\ nSetDropped <= 1
    /\ nSetDropped = 1 => (sendCount = MaxSendCount /\ ticks = MaxSendCount
                             /\ timeout = "cleared")
    /\ (nSetResolved = 0 /\ nSetDropped = 1) =>
          \A c \in Conts :
             /\ rejectCalls[c] <= 1
             /\ resolveCalls[c] = 0
             /\ (c \in rejectListeners \ lateReject) => rejectCalls[c] = 1
    /\ nSetDropped = 0 => ~SomeRejectCall
    /\ (constructed /\ nSetResolved = 0 /\ nSetDropped = 0) =>
          (timeout = "armed" /\ ticks < MaxSendCount)
C2_DroppedExactlyOnce == []C2_DropState /\ [][C2_DropStep]_vars
C2_Witness ==
  /\ EngineOnly
  /\ nSetDropped = 1 /\ nSetResolved = 0
  /\ sendCount = MaxSendCount /\ ticks = MaxSendCount
  /\ rejectListeners = Conts /\ lateReject = {}
  /\ \A c \in Conts : rejectCalls[c] = 1

\* C3: while the entry is driven by its own operations only, construction
\* performs attempt 1 at once (send count 1, one write, no tick), each of the
\* next 9 ticks performs exactly one further attempt, and in every state
\* after construction the send count is between 1 and 10 and equals the
\* number of writes of the packet.
C3_State ==
  EngineOnly =>
    /\ ~constructed => (sendCount = 0 /\ writes = 0 /\ ticks = 0)
    /\ constructed =>
         /\ sendCount >= 1 /\ sendCount <= MaxSendCount
         /\ writes = sendCount
         /\ sendCount = 1 + (IF ticks < MaxSendCount - 1 THEN ticks
                             ELSE MaxSendCount - 1)
C3_Step ==
  EngineStep =>
    /\ IsConstructStep => (sendCount' = 1 /\ writes' = 1 /\ ticks' = 0)
    /\ (IsTickStep /\ sendCount < MaxSendCount) =>
         (sendCount' = sendCount + 1 /\ writes' = writes + 1)
C3_AttemptsBounded == []C3_State /\ [][C3_Step]_vars
C3_Witness ==
  /\ EngineOnly
  /\ constructed /\ sendCount = MaxSendCount /\ writes = MaxSendCount
  /\ ticks = MaxSendCount - 1 /\ timeout = "armed"

\* C4: while the entry is driven by its own operations only, once it has
\* completed (by setResolved at any attempt count from 1 to 10, or by the
\* drop) the timer is disarmed and the send count and the number of writes
\* never change again; the resolution calls every success continuation
\* registered before it exactly once.
C4_AfterCompletion ==
  (EngineStep /\ Completed) =>
     /\ timeout = "cleared" /\ timeout' = "cleared"
     /\ sendCount' = sendCount
     /\ writes' = writes
     /\ ticks' = ticks
C4_ResolutionStep ==
  (EngineStep /\ IsSetResolvedStep /\ ~Completed) =>
     /\ \A c \in Conts :
          resolveCalls'[c] = IF c \in resolveListeners THEN 1 ELSE 0
     /\ timeout' = "cleared"
     /\ rejectCalls' = rejectCalls
     /\ sendCount' = sendCount /\ writes' = writes
C4_NoAttemptAfterCompletion ==
  [][C4_AfterCompletion /\ C4_ResolutionStep]_vars
C4_Witness ==
  /\ EngineOnly
  /\ nSetResolved = 1 /\ nSetDropped = 0
  /\ sendCount = 3 /\ writes = 3 /\ ticks = 2
  /\ timeout = "cleared"
  /\ resolveListeners = Conts /\ lateResolve = {}
  /\ \A c \in Conts : resolveCalls[c] = 1

\* C5: with a fair timer, an entry that stays driven by its own operations
\* reaches a terminal outcome after it is constructed: it is resolved by
\* setResolved() or, at the 10th tick, reported dropped; the timer never
\* runs more than 10 times.
C5_Bounded ==
  EngineOnly =>
    /\ ticks <= MaxSendCount
    /\ ticks = MaxSendCount => (nSetDropped = 1 /\ timeout = "cleared")
C5_EventuallyTerminal ==
  /\ []C5_Bounded
  /\ constructed ~> (~EngineOnly \/ (Completed /\ timeout = "cleared"))
C5_Witness ==
  /\ EngineOnly
  /\ nSetDropped = 1 /\ nSetResolved = 0 /\ ticks = MaxSendCount
  /\ rejectListeners = {} /\ resolveListeners = {}
  /\ timeout = "cleared"

\* C6: a continuation attached before completion is called when the matching
\* outcome occurs, and a continuation attached after the entry has completed
\* is never called, whatever follows.
C6_LateNeverInvoked ==
  /\ nSetResolved >= 1 =>
       \A c \in resolveListeners \ lateResolve : resolveCalls[c] >= 1
  /\ nSetDropped >= 1 =>
       \A c \in rejectListeners \ lateReject : rejectCalls[c] >= 1
  /\ \A c \in lateResolve : resolveCalls[c] = 0
  /\ \A c \in lateReject : rejectCalls[c] = 0

(***************************************************************************)
(* Properties of the handshake state machine                               *)
(***************************************************************************)
\* what receiving one handshake message does to the socket as it is now
After(message) == HandleMessage(Cur, HandshakeRecord(<<message>>))
Supported(message) ==
  message.buffer.cipherSuite = TLS_ECDHE_RSA_WITH_AES_128_GCM_SHA256
\* the session state and everything sent are as before
Untouched(t) ==
  /\ t.epochState = epochState
  /\ t.sent = sent
  /\ t.epoch = epoch
  /\ t.sequenceNumber = sequenceNumber
  /\ t.disconnectHandlers = disconnectHandlers

\* C7: a ServerHello in ExpectingServerHello with the supported suite moves to
\* ExpectingCertificate and initializes the key-agreement helper; with any
\* other suite it leaves the handshake state unchanged; in any other state a
\* ServerHello changes nothing.
C7_ServerHelloBySuite ==
  \A m \in ServerHellos :
    /\ (epochState.state = ExpectingServerHello /\ Supported(m)) =>
          /\ After(m).epochState.state = ExpectingCertificate
          /\ IsSome(After(m).epochState.handshake)
    /\ (epochState.state = ExpectingServerHello /\ ~Supported(m)) =>
          After(m).epochState.state = epochState.state
    /\ epochState.state # ExpectingServerHello => Untouched(After(m))

\* the write a ClientHello with this cookie makes
IsClientHelloWrite(w, cookie) ==
  /\ Len(w) = 1
  /\ w[1].contentType = "Handshake"
  /\ Len(w[1].body) = 1
  /\ w[1].body[1].handshakeType = "ClientHello"
  /\ w[1].body[1].body.cookie = cookie

\* nothing of the socket has changed
NothingChanged(t) ==
  /\ Untouched(t)
  /\ t.handshakeSequence = handshakeSequence

\* C8: in ExpectingServerHello a HelloVerifyRequest with the stored cookie
\* sends nothing and changes nothing; one with a different cookie sends
\* exactly one ClientHello carrying the new cookie, stores the cookie and
\* stays in ExpectingServerHello; in any other state it sends nothing and
\* the cookie stays.
C8_HelloVerifyRequest ==
  \A m \in HelloVerifyRequests :
    /\ (epochState.state = ExpectingServerHello
          /\ m.buffer.cookie = epochState.cookie) => NothingChanged(After(m))
    /\ (epochState.state = ExpectingServerHello
          /\ m.buffer.cookie # epochState.cookie) =>
          /\ Len(After(m).sent) = Len(sent) + 1
          /\ SubSeq(After(m).sent, 1, Len(sent)) = sent
          /\ IsClientHelloWrite(After(m).sent[Len(sent) + 1], m.buffer.cookie)
          /\ After(m).epochState =
               [epochState EXCEPT !.cookie = m.buffer.cookie]
          /\ After(m).epochState.state = ExpectingServerHello
    /\ epochState.state # ExpectingServerHello =>
          /\ After(m).sent = sent
          /\ After(m).epochState.cookie = epochState.cookie

\* positions of plan still to come
Awaited(i) ==
  \E f \in pending :
    i > f.fragmentOffset /\ i <= f.fragmentOffset + Len(f.buffer)
\* positions of plan that fragment f holds
Holds(f, i) == i > f.fragmentOffset /\ i <= f.fragmentOffset + Len(f.buffer)
\* the reassembly buffer the delivered fragments must have produced
ExpectedBuffer == [i \in 1..Len(plan) |-> IF Awaited(i) THEN 0 ELSE plan[i]]
\* the same once fragment f has been delivered too
ExpectedBufferWith(f) ==
  [i \in 1..Len(plan) |-> IF Awaited(i) /\ ~Holds(f, i) THEN 0 ELSE plan[i]]
\* the bytes of plan delivered so far
DeliveredBytes == Cardinality({i \in 1..Len(plan) : ~Awaited(i)})
\* the reassembly state is the one the delivered fragments of plan produce
\* from a clean start: nothing else has touched it since the exchange began
Intact ==
  IF delivered = <<>>
    THEN /\ ~IsSome(epochState.certificateFragments)
         /\ epochState.certificateFragmentDataRecv = 0
    ELSE /\ pending # {}
         /\ epochState.certificateFragments = Some(ExpectedBuffer)
         /\ epochState.certificateFragmentDataRecv = DeliveredBytes

\* C9: for fragments that partition a certificate, delivered from a clean
\* start with nothing else touching the reassembly state, every delivery
\* order gives the same buffer: a fragment that is not the last one calls no
\* handler and leaves the buffer holding exactly the delivered bytes at their
\* offsets; the last fragment calls the handler once with the whole
\* certificate and leaves the buffer absent and the counter 0.
C9_ReassemblyOrderIndependent ==
  Intact =>
    \A f \in pending :
       /\ ~After(f).threw
       /\ IF pending = {f}
            THEN /\ After(f).certCalls = 1
                 /\ After(f).lastCert = plan
                 /\ ~IsSome(After(f).epochState.certificateFragments)
                 /\ After(f).epochState.certificateFragmentDataRecv = 0
                 /\ plan[1] # 0 =>
                      /\ After(f).epochState.serverCertificate
                           = Some(CertificateDeserialize(plan))
                      /\ After(f).epochState.state = ExpectingServerKeyExchange
            ELSE /\ After(f).certCalls = 0
                 /\ After(f).epochState.certificateFragments
                      = Some(ExpectedBufferWith(f))
                 /\ After(f).epochState.certificateFragmentDataRecv
                      = DeliveredBytes + Len(f.buffer)
                 /\ After(f).epochState.state = epochState.state
                 /\ After(f).epochState.serverCertificate
                      = epochState.serverCertificate
\* the second exchange delivered its fragments last to first
C9_Witness ==
  /\ exchanges = 2
  /\ pending = {}
  /\ Len(plan) = MaxPlanLen
  /\ delivered = <<1, 0>>
  /\ epochState.state = ExpectingServerKeyExchange
  /\ epochState.serverCertificate = Some(CertificateDeserialize(plan))
  /\ ~IsSome(epochState.certificateFragments)
  /\ epochState.certificateFragmentDataRecv = 0

\* the final client flight as one write
IsFinalFlight(w) ==
  /\ Len(w) = 3
  /\ w[1].contentType = "Handshake" /\ ~w[1].encrypted
  /\ Len(w[1].body) = 1
  /\ w[1].body[1].handshakeType = "ClientKeyExchange"
  /\ w[2].contentType = "ChangeCipherSpec" /\ ~w[2].encrypted
  /\ w[2].body = <<1>>
  /\ w[3].contentType = "Handshake" /\ w[3].encrypted
  /\ Len(w[3].body[3]) = 1
  /\ w[3].body[3][1].handshakeType = "Finished"

ValidKeyExchangeHere(m) ==
  /\ m.buffer.curveType = NamedCurveType
  /\ m.buffer.selectedCurve = X25519Curve
  /\ m.buffer.hashAlgorithm = Sha256Hash
  /\ m.buffer.signatureAlgorithm = RsaSignature
  /\ IsSome(epochState.serverCertificate)
  /\ RsaVerify(Get(Get(epochState.serverCertificate).publicKey),
               Sha256(KeyAndParameters(m.buffer)), m.buffer.signature)

\* C10: the steps of the end-to-end scenario: a reset starts in Initializing
\* and connect leaves ExpectingServerHello; a HelloVerifyRequest with a new
\* cookie keeps it; a ServerHello with the supported suite gives
\* ExpectingCertificate; a valid Certificate gives ExpectingServerKeyExchange;
\* a valid ServerKeyExchange gives ExpectingServerHelloDone with master secret
\* and record protection; ServerHelloDone gives ExpectingChangeCipherSpec and
\* exactly one write holding ClientKeyExchange, ChangeCipherSpec and the
\* encrypted Finished in this order; in any other state ServerHelloDone
\* writes nothing and leaves the state.
C10_EndToEnd ==
  /\ \A cr \in ClientRandoms :
       /\ ResetConnectionState(Cur, cr).epochState.state = Initializing
       /\ ConnectOp(Cur, cr).epochState.state = ExpectingServerHello
       /\ Len(ConnectOp(Cur, cr).sent) = Len(sent) + 1
       /\ IsClientHelloWrite(ConnectOp(Cur, cr).sent[Len(sent) + 1], <<>>)
  /\ \A m \in HelloVerifyRequests :
       (epochState.state = ExpectingServerHello
          /\ m.buffer.cookie # epochState.cookie) =>
         After(m).epochState.state = ExpectingServerHello
  /\ \A m \in ServerHellos :
       (epochState.state = ExpectingServerHello /\ Supported(m)) =>
         After(m).epochState.state = ExpectingCertificate
  /\ \A m \in Certificates :
       (epochState.state = ExpectingCertificate
          /\ m.fullLength = Len(m.buffer)
          /\ IsSome(CertificateDeserialize(m.buffer).publicKey)) =>
         After(m).epochState.state = ExpectingServerKeyExchange
  /\ \A m \in ServerKeyExchanges :
       (epochState.state = ExpectingServerKeyExchange
          /\ epochState.selectedCipherSuite
               = TLS_ECDHE_RSA_WITH_AES_128_GCM_SHA256
          /\ ValidKeyExchangeHere(m)) =>
         /\ After(m).epochState.state = ExpectingServerHelloDone
         /\ After(m).epochState.masterSecret # <<>>
         /\ IsSome(After(m).epochState.recordProtection)
  /\ \A m \in ServerHelloDones :
       IF epochState.state = ExpectingServerHelloDone
         THEN /\ After(m).epochState.state = ExpectingChangeCipherSpec
              /\ ~After(m).threw
              /\ Len(After(m).sent) = Len(sent) + 1
              /\ SubSeq(After(m).sent, 1, Len(sent)) = sent
              /\ IsFinalFlight(After(m).sent[Len(sent) + 1])
         ELSE /\ After(m).sent = sent
              /\ After(m).epochState = epochState
C10_Witness ==
  /\ epochState.state = ExpectingChangeCipherSpec
  /\ epochState.cookie = <<171>>
  /\ epochState.selectedCipherSuite = TLS_ECDHE_RSA_WITH_AES_128_GCM_SHA256
  /\ IsSome(epochState.serverCertificate)
  /\ epochState.masterSecret # <<>>
  /\ IsSome(epochState.recordProtection)
  /\ Len(sent) = 3
  /\ IsClientHelloWrite(sent[1], <<>>)
  /\ IsClientHelloWrite(sent[2], <<171>>)
  /\ IsFinalFlight(sent[3])

(***************************************************************************)
(* Properties of the connection counters                                   *)
(***************************************************************************)
\* the socket has sent a final flight before
SentFinalFlight == \E i \in DOMAIN sent : IsFinalFlight(sent[i])
\* the write an operation added last
LastWrite(t) == t.sent[Len(t.sent)]
\* the first connection attempt of the socket
FirstAttempt == Cardinality(ConnectHandlers(Cur)) = 1

\* the final flight that a ServerHelloDone makes leaves the epoch at `to`,
\* one above the epoch of ClientKeyExchange and ChangeCipherSpec, which carry
\* consecutive record sequence numbers; Finished carries epoch `to` and the
\* initial record sequence number
FlightEpochs(t, from, to) ==
  LET w == LastWrite(t)
  IN /\ Len(t.sent) = Len(sent) + 1
     /\ IsFinalFlight(w)
     /\ epoch = from /\ t.epoch = to /\ to = from + 1
     /\ w[1].epoch = from /\ w[2].epoch = from
     /\ w[1].sequenceNumber = sequenceNumber
     /\ w[2].sequenceNumber = w[1].sequenceNumber + 1
     /\ w[3].epoch = to
     /\ w[3].sequenceNumber = InitialSequenceNumber
     /\ t.sequenceNumber = InitialSequenceNumber + 1

\* C11 as stated: in the final flight of a first connection attempt
\* ClientKeyExchange and ChangeCipherSpec are built at epoch 1 with
\* consecutive record sequence numbers and Finished at epoch 2 with the initial
\* record sequence number.
C11_EpochOneToTwo ==
  \A m \in ServerHelloDones :
    (FirstAttempt /\ epochState.state = ExpectingServerHelloDone) =>
       FlightEpochs(After(m), 1, 2)

\* C11, amended: every final flight increments the epoch exactly once, from e
\* to e + 1, and e is 0 in the first final flight of the socket:
\* ClientKeyExchange and ChangeCipherSpec are built at e with consecutive
\* record sequence numbers, Finished at e + 1 with the initial record sequence
\* number 1; outside a final flight the epoch does not change.
C11_EpochZeroToOne ==
  /\ ~SentFinalFlight => epoch = 0
  /\ \A m \in ServerHelloDones :
       IF epochState.state = ExpectingServerHelloDone
         THEN FlightEpochs(After(m), epoch, epoch + 1)
         ELSE After(m).epoch = epoch /\ After(m).sequenceNumber = sequenceNumber
C11_Witness ==
  /\ FirstAttempt
  /\ Len(sent) = 2
  /\ IsClientHelloWrite(sent[1], <<>>)
  /\ IsFinalFlight(sent[2])
  /\ sent[2][1].epoch = 0 /\ sent[2][1].sequenceNumber = 2
  /\ sent[2][2].epoch = 0 /\ sent[2][2].sequenceNumber = 3
  /\ sent[2][3].epoch = 1 /\ sent[2][3].sequenceNumber = 1
  /\ epoch = 1 /\ sequenceNumber = 2

(***************************************************************************)
(* Properties of the order of states and of dropped messages               *)
(***************************************************************************)
\* the position of a state in the order of enum HandshakeState
Rank(state) ==
  CASE state = Initializing -> 0
    [] state = ExpectingServerHello -> 1
    [] state = ExpectingCertificate -> 2
    [] state = ExpectingServerKeyExchange -> 3
    [] state = ExpectingServerHelloDone -> 4
    [] state = ExpectingChangeCipherSpec -> 5

\* connect() has been called: a connection attempt is under way
AttemptStarted == ConnectHandlers(Cur) # {}

\* the inbound message does not move the handshake to an earlier state
NotEarlier(t) == Rank(t.epochState.state) >= Rank(epochState.state)

\* C12: within a connection attempt no inbound message moves the handshake
\* state to an earlier state of the order Initializing, ExpectingServerHello,
\* ExpectingCertificate, ExpectingServerKeyExchange, ExpectingServerHelloDone,
\* ExpectingChangeCipherSpec; a Certificate or ServerKeyExchange that arrives
\* after the final flight causes no transition.
C12_StateLinear ==
  AttemptStarted =>
    /\ \A m \in HelloVerifyRequests : NotEarlier(After(m))
    /\ \A m \in ServerHellos : NotEarlier(After(m))
    /\ \A m \in Certificates : NotEarlier(After(m))
    /\ \A m \in ServerKeyExchanges : NotEarlier(After(m))
    /\ \A m \in ServerHelloDones : NotEarlier(After(m))
    /\ \A m \in OtherHandshakes : NotEarlier(After(m))
    /\ epochState.state = ExpectingChangeCipherSpec =>
         /\ \A m \in Certificates : After(m).epochState.state = epochState.state
         /\ \A m \in ServerKeyExchanges :
              After(m).epochState.state = epochState.state

\* the fields a dropped message must leave: handshake state, cookie,
\* negotiated suite, stored certificate, master secret and record protection
\* keep their values, nothing is sent, no disconnect handler is called
Dropped(t) ==
  /\ t.epochState.state = epochState.state
  /\ t.epochState.cookie = epochState.cookie
  /\ t.epochState.selectedCipherSuite = epochState.selectedCipherSuite
  /\ t.epochState.serverCertificate = epochState.serverCertificate
  /\ t.epochState.masterSecret = epochState.masterSecret
  /\ t.epochState.recordProtection = epochState.recordProtection
  /\ t.sent = sent
  /\ t.disconnectHandlers = disconnectHandlers

\* the ServerKeyExchange fails one of the checks of its parameters or its
\* signature does not verify under the stored certificate
BadKeyExchange(m) ==
  \/ m.buffer.curveType # NamedCurveType
  \/ m.buffer.selectedCurve # X25519Curve
  \/ m.buffer.hashAlgorithm # Sha256Hash
  \/ m.buffer.signatureAlgorithm # RsaSignature
  \/ /\ IsSome(epochState.serverCertificate)
     /\ ~RsaVerify(Get(Get(epochState.serverCertificate).publicKey),
                   Sha256(KeyAndParameters(m.buffer)), m.buffer.signature)

\* C13: every inbound message dropped as a soft failure (a message in the wrong
\* state, an unsupported curve type, curve, hash, signature algorithm or cipher
\* suite, a signature that does not verify, a certificate without a public
\* key, a non-fatal alert) leaves handshake state, cookie, negotiated suite,
\* stored certificate, master secret and record protection as they were,
\* sends nothing and reports no disconnect.
C13_DroppedLeavesState ==
  /\ \A m \in HelloVerifyRequests :
       epochState.state # ExpectingServerHello => Dropped(After(m))
  /\ \A m \in ServerHellos :
       (epochState.state # ExpectingServerHello \/ ~Supported(m)) =>
          Dropped(After(m))
  /\ \A m \in Certificates :
       (m.fullLength = Len(m.buffer)
          /\ (epochState.state # ExpectingCertificate
                \/ ~IsSome(CertificateDeserialize(m.buffer).publicKey))) =>
          Dropped(After(m))
  /\ \A m \in ServerKeyExchanges :
       (epochState.state # ExpectingServerKeyExchange
          \/ BadKeyExchange(m)
          \/ epochState.selectedCipherSuite
                # TLS_ECDHE_RSA_WITH_AES_128_GCM_SHA256) =>
          Dropped(After(m))
  /\ \A m \in ServerHelloDones :
       epochState.state # ExpectingServerHelloDone => Dropped(After(m))
  /\ Dropped(HandleMessage(Cur, AlertRecord(FALSE)))

(***************************************************************************)
(* Properties of alerts, disconnection and the handshake sequence number   *)
(***************************************************************************)
\* what receiving an Alert record does to the socket as it is now
AfterAlert(fatal) == HandleMessage(Cur, AlertRecord(fatal))

\* C14: a fatal Alert calls every registered disconnect handler once, which
\* rejects a connect still pending; a non-fatal Alert calls none; neither
\* changes the epoch state, the counters or what was sent.
C14_AlertHandling ==
  /\ \A fatal \in BOOLEAN :
       /\ AfterAlert(fatal).epochState = epochState
       /\ AfterAlert(fatal).sent = sent
       /\ AfterAlert(fatal).epoch = epoch
       /\ AfterAlert(fatal).sequenceNumber = sequenceNumber
       /\ AfterAlert(fatal).handshakeSequence = handshakeSequence
       /\ Len(AfterAlert(fatal).disconnectHandlers) = Len(disconnectHandlers)
  /\ \A i \in DOMAIN disconnectHandlers :
       /\ AfterAlert(TRUE).disconnectHandlers[i].calls
            = disconnectHandlers[i].calls + 1
       /\ AfterAlert(TRUE).disconnectHandlers[i].promise # "pending"
       /\ disconnectHandlers[i].promise = "pending" =>
            AfterAlert(TRUE).disconnectHandlers[i].promise = "rejected"
  /\ AfterAlert(FALSE).disconnectHandlers = disconnectHandlers
  /\ \A i \in ConnectHandlers(Cur) :
       (disconnectHandlers[i].promise = "rejected")
         <=> (disconnectHandlers[i].calls > 0)
\* a fatal alert has called the handler of a caller and the handler of a
\* connect
C14_Witness ==
  /\ Len(disconnectHandlers) = 2
  /\ disconnectHandlers[1] =
       [handler |-> "h1", promise |-> "none", calls |-> 1]
  /\ disconnectHandlers[2] =
       [handler |-> RejHandler, promise |-> "rejected", calls |-> 1]
  /\ epochState.state = ExpectingServerHello
  /\ Len(sent) = 1

\* C15: when the transport has disconnected no connect of the DTLS socket is
\* left pending: its disconnect handler has been called and its promise
\* rejected.
C15_TransportDisconnectRejects ==
  ~transportUp =>
     \A i \in ConnectHandlers(Cur) :
       /\ disconnectHandlers[i].promise # "pending"
       /\ disconnectHandlers[i].calls > 0

\* the handshake messages of a write (a final flight holds two, one of them
\* encrypted)
HandshakesOfRecord(r) ==
  IF r.contentType # "Handshake" THEN <<>>
  ELSE IF r.encrypted THEN r.body[3] ELSE r.body
RECURSIVE HandshakesOfWrite(_, _)
HandshakesOfWrite(w, i) ==
  IF i > Len(w) THEN <<>>
  ELSE HandshakesOfRecord(w[i]) \o HandshakesOfWrite(w, i + 1)
RECURSIVE HandshakesSent(_, _)
HandshakesSent(writes_, i) ==
  IF i > Len(writes_) THEN <<>>
  ELSE HandshakesOfWrite(writes_[i], 1) \o HandshakesSent(writes_, i + 1)

\* receiving the message adds to the handshake sequence number exactly the
\* number of handshake messages it makes the client send
CountsTransmissions(t) ==
  t.handshakeSequence
    = handshakeSequence
        + Len(HandshakesSent(t.sent, 1)) - Len(HandshakesSent(sent, 1))

\* C16: the handshake-message sequence number changes only by +1 for each
\* handshake message the client transmits, so the sequence numbers of the
\* transmitted handshake messages are strictly increasing; receiving a
\* handshake message does not change it otherwise.
C16_HandshakeSequenceMonotonic ==
  AttemptStarted =>
    /\ \A m \in HelloVerifyRequests : CountsTransmissions(After(m))
    /\ \A m \in ServerHellos : CountsTransmissions(After(m))
    /\ \A m \in Certificates : CountsTransmissions(After(m))
    /\ \A m \in ServerKeyExchanges : CountsTransmissions(After(m))
    /\ \A m \in ServerHelloDones : CountsTransmissions(After(m))
    /\ \A m \in OtherHandshakes : CountsTransmissions(After(m))
    /\ LET hs == HandshakesSent(sent, 1)
       IN \A i, j \in DOMAIN hs :
            i < j => hs[i].messageSequence < hs[j].messageSequence

(***************************************************************************)
(* Properties of the record numbering                                      *)
(***************************************************************************)
\* the records written so far, in the order of transmission
RECURSIVE RecordsSent(_, _)
RecordsSent(writes_, i) ==
  IF i > Len(writes_) THEN <<>>
  ELSE writes_[i] \o RecordsSent(writes_, i + 1)

\* (epoch, sequence number) of a precedes that of b
NumberedBefore(ea, na, eb, nb) == ea < eb \/ (ea = eb /\ na < nb)

\* an operation that keeps the epoch takes one record sequence number for
\* each record it sends, starting at the current one; the record sequence
\* number is reset only together with an epoch increment, between the second
\* and the third record of a final flight
TakesNumbers(t) ==
  LET old == RecordsSent(sent, 1)
      new == RecordsSent(t.sent, 1)
  IN /\ t.epoch >= epoch
     /\ t.epoch = epoch =>
          /\ t.sequenceNumber = sequenceNumber + Len(new) - Len(old)
          /\ \A k \in (Len(old) + 1)..Len(new) :
               /\ new[k].epoch = epoch
               /\ new[k].sequenceNumber = sequenceNumber + (k - Len(old) - 1)
     /\ t.epoch > epoch =>
          /\ t.epoch = epoch + 1
          /\ Len(new) = Len(old) + 3
          /\ new[Len(old) + 1].epoch = epoch
          /\ new[Len(old) + 1].sequenceNumber = sequenceNumber
          /\ new[Len(old) + 2].epoch = epoch
          /\ new[Len(old) + 2].sequenceNumber = sequenceNumber + 1
          /\ new[Len(old) + 3].epoch = epoch + 1
          /\ new[Len(old) + 3].sequenceNumber = InitialSequenceNumber
          /\ t.sequenceNumber = InitialSequenceNumber + 1

\* C17: every transmitted record takes the current (epoch, record sequence
\* number) and the number then grows by one; it is reset only by an epoch
\* increment; so, also over repeated connect attempts, the records sent carry
\* pairwise different (epoch, sequence number) pairs, in increasing order.
C17_RecordNumbersUnique ==
  /\ LET rs == RecordsSent(sent, 1)
     IN /\ \A i, j \in DOMAIN rs :
             i < j => NumberedBefore(rs[i].epoch, rs[i].sequenceNumber,
                                     rs[j].epoch, rs[j].sequenceNumber)
        /\ \A i \in DOMAIN rs :
             NumberedBefore(rs[i].epoch, rs[i].sequenceNumber,
                            epoch, sequenceNumber)
  /\ \A cr \in ClientRandoms : TakesNumbers(ConnectOp(Cur, cr))
  /\ \A m \in HelloVerifyRequests : TakesNumbers(After(m))
  /\ \A f \in ServerFlights :
       /\ TakesNumbers(HandleMessage(Cur, HandshakeRecord(f)))
       /\ TakesNumbers(HandleMessage(Cur, HandshakeRecord(SubSeq(f, 2, Len(f)))))
\* two attempts, each ended by a final flight
C17_Witness ==
  /\ Cardinality(ConnectHandlers(Cur)) = 2
  /\ Len(sent) = 4
  /\ IsClientHelloWrite(sent[1], <<>>) /\ IsFinalFlight(sent[2])
  /\ IsClientHelloWrite(sent[3], <<>>) /\ IsFinalFlight(sent[4])
  /\ sent[1][1].epoch = 0 /\ sent[3][1].epoch = 1 /\ sent[4][3].epoch = 2
  /\ sent[3][1].sequenceNumber = 2
  /\ epoch = 2

(***************************************************************************)
(* Properties of key derivation                                            *)
(***************************************************************************)
SuiteSupported ==
  epochState.selectedCipherSuite = TLS_ECDHE_RSA_WITH_AES_128_GCM_SHA256

\* C18: in ExpectingServerHelloDone the record protection is present, the
\* master secret is non-empty, a server certificate is stored and the
\* negotiated suite is the supported one; so a ServerHelloDone never builds the
\* final flight without record protection, and while the negotiated suite is
\* not the supported one no message makes the client send the final flight.
C18_KeysBeforeFlight ==
  /\ epochState.state = ExpectingServerHelloDone =>
       /\ IsSome(epochState.recordProtection)
       /\ epochState.masterSecret # <<>>
       /\ IsSome(epochState.serverCertificate)
       /\ SuiteSupported
  /\ \A m \in ServerHelloDones :
       /\ ~After(m).threw
       /\ After(m).sent # sent =>
            /\ IsSome(epochState.recordProtection)
            /\ LastWrite(After(m))[3].body[2] = Get(epochState.recordProtection)
  /\ (~SuiteSupported /\ epochState.state # ExpectingServerHello) =>
       /\ \A m \in HelloVerifyRequests : After(m).sent = sent
       /\ \A m \in ServerHellos :
            After(m).sent = sent /\ After(m).epochState = epochState
       /\ \A m \in Certificates :
            /\ After(m).sent = sent
            /\ After(m).epochState.selectedCipherSuite
                 = epochState.selectedCipherSuite
       /\ \A m \in ServerKeyExchanges :
            After(m).sent = sent /\ After(m).epochState = epochState
       /\ \A m \in ServerHelloDones : After(m).sent = sent
C18_Witness ==
  /\ epochState.state = ExpectingServerHelloDone
  /\ IsSome(epochState.recordProtection)
  /\ epochState.masterSecret # <<>>
  /\ IsSome(epochState.serverCertificate)
  /\ SuiteSupported
  /\ Len(sent) = 1

\* C19: a fragment completes the reassembly only when every byte position of
\* the buffer has been written by a received fragment (every fragment byte
\* here is 1 and a fresh buffer is all 0, so a 0 is a position never written).
C19_CompleteOnlyWhenFilled ==
  \A m \in Certificates :
    (m.fullLength # Len(m.buffer) /\ After(m).certCalls > 0) =>
       \A i \in DOMAIN After(m).lastCert : After(m).lastCert[i] # 0

\* C20: a derived master secret is seeded with the client random followed by
\* the random of the accepted ServerHello, and the record protection is built
\* with that server random, not with Random.NULL.
C20_ServerRandomUsed ==
  /\ epochState.masterSecret # <<>> =>
       /\ epochState.masterSecret[4][1] = epochState.clientRandom
       /\ epochState.masterSecret[4][2] \in ServerRandoms
  /\ IsSome(epochState.recordProtection) =>
       Get(epochState.recordProtection).serverRandom \in ServerRandoms

====
